---- MODULE Spec2Model ----
(***************************************************************************)
(* Model of the dividend analyzer: the Flask application (src/app.py), the *)
(* criteria engine (src/services/stock_analyzer.py) and the Status Invest  *)
(* scraper (src/services/stock_data_scraper.py).                           *)
(*                                                                         *)
(* Conventions.                                                            *)
(*  - Python None is the empty sequence <<>>, a present value v is <<v>>.  *)
(*  - A pandas Series indexed by ticker is a function from a set of        *)
(*    tickers to values; the empty Series is the function of empty domain. *)
(*  - Volatilities are integers in hundredths (0.37 is 37); NaN is the     *)
(*    float NaN, for which every comparison is false.                      *)
(*  - Decimal numbers parsed from page text are records [m, e] that stand  *)
(*    for m / 10^e, kept normalised.                                       *)
(***************************************************************************)
EXTENDS Integers, Sequences, FiniteSets, TLC

VARIABLES
    \* src/app.py, process-wide state
    global_volatilidade_mercado,  \* None or the benchmark Series
    setup_complete,               \* the once-flag of setup_application
    \* request threads of the (threaded) server
    pc,                           \* thread -> position in the request
    volatilidades,                \* thread -> value returned by its build, not yet assigned
    lido,                         \* thread -> what check_stock read from the global
    builds,                       \* number of calls of calculate_market_volatility so far
    \* src/services/stock_data_scraper.py
    page,                         \* the Status Invest page of the ticker, as the scraper sees it
    lpa_payout,                   \* None, or the outcome of get_lpa_payout(ticker)
    financial_history,            \* None, or the dict get_financial_history(ticker) returned
    \* src/services/stock_analyzer.py
    chamada,                      \* None, or the call [fn, arg] of a StockAnalyzer method
    retorno,                      \* None, or the value the call returned
    \* src/app.py, one request in check_stock
    passo,                        \* the statement of check_stock the request is at
    resultados,                   \* the dict resultados
    dados,                        \* lpa_payout_data and financial_history_data, once scraped
    mercado,                      \* criterion -> None, or what yf.download did for it
    status                        \* None, or the HTTP status of the response

appVars == << global_volatilidade_mercado, setup_complete, pc, volatilidades, lido, builds >>

scraperVars == << page, lpa_payout, financial_history >>

analyzerVars == << chamada, retorno >>

requestVars == << passo, resultados, dados, mercado, status >>

vars == << appVars, scraperVars, analyzerVars, requestVars >>

----------------------------------------------------------------------------
(* Bounds *)

\* Number of request threads serving concurrently.
NumThreads == 2

\* Largest number of close-price observations a downloaded column holds.
MaxObs == 3

\* Largest number of characters of value text on one page.
MaxPageText == 3

\* Largest number of cells of the annual net-profit row.
MaxCells == 4

\* Largest number of annual profits handed to the growth criterion.
MaxProfits == 4

\* Largest number of entries of a benchmark Series handed to the volatility criterion.
MaxBench == 4

\* Largest number of rows of a frame handed to the dividends criterion.
MaxDividendRows == 4

----------------------------------------------------------------------------
(* Values *)

None == <<>>

Some(v) == <<v>>

\* float NaN: the sample standard deviation of a single return.
NaN == -1

\* Annualised volatilities the market data can yield, in hundredths.
Vols == {10, 40}

Threads == 1..NumThreads

\* A part of the list tickers_para_benchmark of setup_application.
tickers_para_benchmark == {"ITUB4", "BBDC4"}

\* No call of the scraper is under way.
ScraperIdle ==
    /\ page = None
    /\ lpa_payout = None
    /\ financial_history = None

\* No call of the analyzer is under way.
AnalyzerIdle ==
    /\ chamada = None
    /\ retorno = None

\* The criteria, by the key of their flag in resultados.
Criterios == {"liquidez_minima", "lucro_positivo_ult_trimestre",
              "lucros_crescentes_3_anos", "limites_payout", "menos_volatil",
              "altos_dividendos"}

\* The market criteria, which download a history of the ticker.
CriteriosDeMercado == {"liquidez_minima", "menos_volatil", "altos_dividendos"}

\* resultados as check_stock creates it: lines 107-117.
ResultadosIniciais ==
    [ticker |-> "ITUB4",
     flags |-> [c \in Criterios |-> FALSE],
     todos_criterios_atendidos |-> FALSE,
     erros |-> <<>>]

\* No request is in check_stock.
RequestIdle ==
    /\ passo = "ocioso"
    /\ resultados = ResultadosIniciais
    /\ dados = None
    /\ mercado = [c \in CriteriosDeMercado |-> None]
    /\ status = None

----------------------------------------------------------------------------
(* calculate_market_volatility *)

\* One column of data['Close']: for each row (date) of the frame whether the
\* ticker has a close price there (NaN otherwise), and vol, the value of
\* returns.std() * sqrt(252) when the returns are two or more and not all 0.
Columns(rows) == [obs : [1..rows -> BOOLEAN], vol : Vols]

\* What yf.download can do: raise, return an empty frame, or return a frame
\* of 1 to MaxObs rows whose 'Close' holds a column for some of the tickers
\* asked for. pad tells the pandas the program runs on: Series.pct_change()
\* fills a NaN with the last price before it (fill_method='pad', the default
\* before pandas 3.0) or leaves it.
Downloads ==
    {[kind |-> k, rows |-> 0, pad |-> FALSE, close |-> <<>>] :
        k \in {"error", "empty"}}
    \cup UNION {{[kind |-> "data", rows |-> r, pad |-> p, close |-> c] :
                  p \in BOOLEAN,
                  c \in UNION {[S -> Columns(r)] : S \in SUBSET tickers_para_benchmark}} :
               r \in 1..MaxObs}

\* The number of close prices of a column.
NumObservations(col) == Cardinality({i \in DOMAIN col.obs : col.obs[i]})

\* The rows of a column that hold a value when pct_change() divides: the
\* observed ones, and with pad those after an observed one.
Filled(col, pad) ==
    {i \in DOMAIN col.obs :
        col.obs[i] \/ (pad /\ \E j \in DOMAIN col.obs : j < i /\ col.obs[j])}

\* The rows of close.pct_change().dropna(): those with a value on the row
\* and on the row before.
Returns(col, pad) ==
    {i \in Filled(col, pad) : i > 1 /\ i - 1 \in Filled(col, pad)}

\* returns.empty
ReturnsEmpty(col, pad) == Returns(col, pad) = {}

\* returns.std() * np.sqrt(252): NaN for a single return, 0 when every
\* return is the 0 of a padded row, vol otherwise.
AnnualizedVolatility(col, pad) ==
    IF Cardinality(Returns(col, pad)) = 1 THEN NaN
    ELSE IF \A i \in Returns(col, pad) : ~col.obs[i] THEN 0
    ELSE col.vol

\* lines 56-60: the column is there and its returns are not empty.
Included(d, t) == t \in DOMAIN d.close /\ ~ReturnsEmpty(d.close[t], d.pad)

calculate_market_volatility(d) ==
    IF d.kind # "data"
    THEN <<>>
    ELSE [t \in {u \in tickers_para_benchmark : Included(d, u)}
            |-> AnnualizedVolatility(d.close[t], d.pad)]

----------------------------------------------------------------------------
(* setup_application and the request threads *)

\* A guard that also rebuilds while the benchmark is empty.
SetupNeededMutant ==
    ~setup_complete \/ global_volatilidade_mercado = Some(<<>>)

\* line 83: if not setup_complete
SetupNeeded == ~setup_complete

\* A request arrives: the before-request hook tests the flag.
BeginRequest(t) ==
    /\ pc[t] = "idle"
    /\ pc' = [pc EXCEPT ![t] = IF SetupNeeded THEN "build" ELSE "handler"]
    /\ UNCHANGED << global_volatilidade_mercado, setup_complete, volatilidades, lido, builds >>
    /\ UNCHANGED << scraperVars, analyzerVars, requestVars >>

\* The Series calculate_market_volatility can return, over every download.
MarketVolatilities == {calculate_market_volatility(d) : d \in Downloads}

\* line 88, right-hand side: the call of calculate_market_volatility.
Build(t) ==
    /\ pc[t] = "build"
    /\ \E v \in MarketVolatilities :
          volatilidades' = [volatilidades EXCEPT ![t] = Some(v)]
    /\ builds' = builds + 1
    /\ pc' = [pc EXCEPT ![t] = "assign"]
    /\ UNCHANGED << global_volatilidade_mercado, setup_complete, lido >>
    /\ UNCHANGED << scraperVars, analyzerVars, requestVars >>

\* The build's result is dropped instead of assigned to the global.
AssignOmitted(t) ==
    /\ pc[t] = "assign"
    /\ volatilidades' = [volatilidades EXCEPT ![t] = None]
    /\ pc' = [pc EXCEPT ![t] = "flag"]
    /\ UNCHANGED << global_volatilidade_mercado, setup_complete, lido, builds >>
    /\ UNCHANGED << scraperVars, analyzerVars, requestVars >>

\* line 88, the assignment to the global.
Assign(t) ==
    /\ pc[t] = "assign"
    /\ global_volatilidade_mercado' = volatilidades[t]
    /\ volatilidades' = [volatilidades EXCEPT ![t] = None]
    /\ pc' = [pc EXCEPT ![t] = "flag"]
    /\ UNCHANGED << setup_complete, lido, builds >>
    /\ UNCHANGED << scraperVars, analyzerVars, requestVars >>

\* line 90: setup_complete = True
SetFlag(t) ==
    /\ pc[t] = "flag"
    /\ setup_complete' = TRUE
    /\ pc' = [pc EXCEPT ![t] = "handler"]
    /\ UNCHANGED << global_volatilidade_mercado, volatilidades, lido, builds >>
    /\ UNCHANGED << scraperVars, analyzerVars, requestVars >>

\* line 153: if global_volatilidade_mercado is not None
BenchmarkDisponivel(g) == g # None

\* check_stock, as far as it touches the process-wide state: the read of
\* global_volatilidade_mercado at line 153.
CheckStockRead(t) ==
    /\ pc[t] = "handler"
    /\ lido' = [lido EXCEPT ![t] = Some(global_volatilidade_mercado)]
    /\ pc' = [pc EXCEPT ![t] = "respond"]
    /\ UNCHANGED << global_volatilidade_mercado, setup_complete, volatilidades, builds >>
    /\ UNCHANGED << scraperVars, analyzerVars, requestVars >>

\* The response is sent; the thread is free for the next request.
Respond(t) ==
    /\ pc[t] = "respond"
    /\ lido' = [lido EXCEPT ![t] = None]
    /\ pc' = [pc EXCEPT ![t] = "idle"]
    /\ UNCHANGED << global_volatilidade_mercado, setup_complete, volatilidades, builds >>
    /\ UNCHANGED << scraperVars, analyzerVars, requestVars >>

\* The process has started and no request has arrived.
AppInit ==
    /\ global_volatilidade_mercado = None
    /\ setup_complete = FALSE
    /\ pc = [t \in Threads |-> "idle"]
    /\ volatilidades = [t \in Threads |-> None]
    /\ lido = [t \in Threads |-> None]
    /\ builds = 0

\* calculate_market_volatility(tickers_para_benchmark), on what yf.download
\* did.
CalculateMarketVolatility ==
    /\ chamada # None /\ retorno = None
    /\ chamada[1].fn = "calculate_market_volatility"
    /\ retorno' = Some(calculate_market_volatility(chamada[1].arg))
    /\ UNCHANGED << chamada, appVars, scraperVars, requestVars >>

BenchmarkInit ==
    /\ AppInit
    /\ ScraperIdle
    /\ RequestIdle
    /\ chamada \in {Some([fn |-> "calculate_market_volatility", arg |-> d]) :
                        d \in Downloads}
    /\ retorno = None

BenchmarkNext == CalculateMarketVolatility

SpecBenchmark == BenchmarkInit /\ [][BenchmarkNext]_vars

----------------------------------------------------------------------------
(* Text and numbers of the scraped page *)

\* The characters a value's text is made of here: digits, the separators of
\* the Brazilian number format, the percent sign, a letter and a blank.
Digits == {"0", "4", "5"}

Alphabet == Digits \cup {".", ",", "%", "x", " "}

TextsOfLength(k) == [1..k -> Alphabet]

DigitValue(c) == CASE c = "0" -> 0 [] c = "4" -> 4 [] c = "5" -> 5

RECURSIVE Normalised(_)
\* m / 10^e without trailing zeros in the fraction.
Normalised(x) ==
    IF x.e > 0 /\ x.m % 10 = 0
    THEN Normalised([m |-> x.m \div 10, e |-> x.e - 1])
    ELSE x

Pow10(k) == IF k = 0 THEN 1 ELSE 10 ^ k

\* a < b and a <= b for numbers [m, e].
NumLess(a, b) == a.m * Pow10(b.e) < b.m * Pow10(a.e)

NumLeq(a, b) == a.m * Pow10(b.e) <= b.m * Pow10(a.e)

\* str.replace(c, "")
Remove(s, c) == SelectSeq(s, LAMBDA x : x # c)

\* str.replace(c, d) for single characters
Replace(s, c, d) == [i \in DOMAIN s |-> IF s[i] = c THEN d ELSE s[i]]

RECURSIVE LStrip(_)
LStrip(s) == IF s # <<>> /\ Head(s) = " " THEN LStrip(Tail(s)) ELSE s

RECURSIVE RStrip(_)
RStrip(s) ==
    IF s # <<>> /\ s[Len(s)] = " " THEN RStrip(SubSeq(s, 1, Len(s) - 1)) ELSE s

\* str.strip()
Strip(s) == RStrip(LStrip(s))

RECURSIVE DigitsToInt(_)
DigitsToInt(s) ==
    IF s = <<>> THEN 0
    ELSE 10 * DigitsToInt(SubSeq(s, 1, Len(s) - 1)) + DigitValue(s[Len(s)])

\* Whether float(s) returns: blanks around the number are ignored, then the
\* text is digits with at most one point and at least one digit.
IsFloat(s) ==
    LET t == Strip(s) IN
        /\ \A i \in DOMAIN t : t[i] \in Digits \cup {"."}
        /\ Cardinality({i \in DOMAIN t : t[i] = "."}) <= 1
        /\ \E i \in DOMAIN t : t[i] \in Digits

\* The value float(s) returns when IsFloat(s).
FloatValue(s) ==
    LET t == Strip(s)
        dot == {i \in DOMAIN t : t[i] = "."}
        frac == IF dot = {} THEN 0 ELSE Len(t) - (CHOOSE i \in dot : TRUE)
    IN  Normalised([m |-> DigitsToInt(Remove(t, ".")), e |-> frac])

----------------------------------------------------------------------------
(* StockDataScraper.get_lpa_payout *)

\* What the page holds for one label: no h3 with the label, an h3 with no
\* <strong> after it, or the text of the <strong> that follows the h3.
Located(k) ==
    {[found |-> f, text |-> <<>>] : f \in {"no_h3", "no_strong"}}
    \cup {[found |-> "strong", text |-> x] : x \in TextsOfLength(k)}

\* The ways requests.get / raise_for_status end.
FetchOutcomes == {"ok", "timeout", "http_error"}

\* The pages with at most n characters of value text.
Pages(n) ==
    UNION {[fetch : FetchOutcomes, lpa : Located(i), payout : Located(j)] :
             <<i, j>> \in {ij \in (0..n) \X (0..n) : ij[1] + ij[2] <= n}}

\* _fetch_page: raises Exception when the request fails.
fetch_page_raises(p) == p.fetch # "ok"

\* line 65: the text of the value, cleaned for float().
CleanedValue(text) == Remove(Replace(Remove(Strip(text), "."), ",", "."), "%")

\* _extract_value_from_h3(label), on what the page holds for the label.
extract_value_from_h3(loc) ==
    IF loc.found = "no_h3" THEN None
    ELSE IF loc.found = "no_strong" THEN None
    ELSE IF IsFloat(CleanedValue(loc.text))
         THEN Some(FloatValue(CleanedValue(loc.text)))
         ELSE None

\* What a call returns to its caller: a value, or an exception that escapes.
Returned(v) == [raised |-> FALSE, value |-> v]

Raised == [raised |-> TRUE, value |-> <<>>]

\* The body of get_lpa_payout without its except clause.
get_lpa_payout_try(p) ==
    IF fetch_page_raises(p)
    THEN Raised
    ELSE Returned([lpa |-> extract_value_from_h3(p.lpa),
                   payout |-> extract_value_from_h3(p.payout)])

\* get_lpa_payout with its except clause left out.
get_lpa_payout_no_except(p) == get_lpa_payout_try(p)

\* get_lpa_payout: the body under try, and except Exception at lines 79-81.
get_lpa_payout(p) ==
    LET r == get_lpa_payout_try(p) IN
        IF r.raised THEN Returned([lpa |-> None, payout |-> None]) ELSE r

\* scraper.get_lpa_payout(ticker) is called on the page of the ticker.
GetLpaPayout ==
    /\ page # None
    /\ lpa_payout = None
    /\ lpa_payout' = Some(get_lpa_payout(page[1]))
    /\ UNCHANGED << page, financial_history, appVars, analyzerVars, requestVars >>

ScraperInit ==
    /\ AppInit
    /\ AnalyzerIdle
    /\ RequestIdle
    /\ page \in {Some(p) : p \in Pages(MaxPageText)}
    /\ lpa_payout = None
    /\ financial_history = None

ScraperNext == GetLpaPayout

SpecScraper == ScraperInit /\ [][ScraperNext]_vars

----------------------------------------------------------------------------
(* StockDataScraper.get_financial_history *)

\* line 128: at most 3 annual profits are kept.
MaxLucrosAnuais == 3

\* The texts of the cells of a net-profit row: numbers in the Brazilian
\* format and a text float() rejects.
CellTexts == {<<"4">>, <<"5">>, <<"4", ",", "5">>, <<"x">>}

QuarterCellTexts == {<<"5">>, <<"x">>}

\* The rows of at most n cells with texts of T.
RowsOf(T, n) == UNION {[1..k -> T] : k \in 0..n}

\* What the page holds under a heading: no such heading, no table after it,
\* no row of the table with a net-profit header, or the <td> cells of the
\* first such row.
Section(T, n) ==
    {[found |-> f, cells |-> <<>>] : f \in {"no_heading", "no_table", "no_row"}}
    \cup {[found |-> "row", cells |-> c] : c \in RowsOf(T, n)}

\* The pages with at most n cells in the annual row. Whether the site lists
\* the newest year first (newest_first) is a fact of the page the scraper
\* does not read.
HistoryPages(n) ==
    {[fetch |-> f, annual |-> [found |-> "no_heading", cells |-> <<>>],
      newest_first |-> FALSE,
      quarterly |-> [found |-> "no_heading", cells |-> <<>>]] :
        f \in FetchOutcomes \ {"ok"}}
    \cup [fetch : {"ok"}, annual : Section(CellTexts, n),
          newest_first : BOOLEAN, quarterly : Section(QuarterCellTexts, 2)]

\* lines 122 and 150: the text of a cell, cleaned for float().
CleanedCell(text) == Replace(Remove(Strip(text), "."), ",", ".")

\* reversed(s)
Reversed(s) == [i \in 1..Len(s) |-> s[Len(s) + 1 - i]]

RECURSIVE parsed_values(_, _)
\* The loop of lines 125-131 over the values still to visit: a parsed value
\* is appended, the loop breaks at 3 of them, ValueError continues.
parsed_values(vals, parsed) ==
    IF vals = <<>> \/ Len(parsed) = MaxLucrosAnuais THEN parsed
    ELSE IF IsFloat(Head(vals))
         THEN parsed_values(Tail(vals), Append(parsed, FloatValue(Head(vals))))
         ELSE parsed_values(Tail(vals), parsed)

\* lines 113-133: lucros_anuais from the annual section.
extrair_lucros_anuais(sec) ==
    IF sec.found # "row" THEN <<>>
    ELSE LET values == [i \in DOMAIN sec.cells |-> CleanedCell(sec.cells[i])]
         IN  Reversed(parsed_values(Reversed(values), <<>>))

\* The first cell of the row that parses, None if none does.
primeiro_td_numerico(cells) ==
    LET ok == {i \in DOMAIN cells : IsFloat(CleanedCell(cells[i]))}
    IN  IF ok = {} THEN None
        ELSE Some(FloatValue(CleanedCell(cells[CHOOSE i \in ok : \A j \in ok : i <= j])))

\* lines 148-154: row.find('td') is the first <td> of the row, None for a
\* row without cells; float() of its cleaned text, None on ValueError.
primeiro_td(cells) ==
    IF cells = <<>> THEN None
    ELSE IF IsFloat(CleanedCell(cells[1]))
         THEN Some(FloatValue(CleanedCell(cells[1])))
         ELSE None

\* lines 138-155: lucro_ultimo_trimestre from the quarterly section.
extrair_lucro_ultimo_trimestre(sec) ==
    IF sec.found # "row" THEN None ELSE primeiro_td(sec.cells)

\* get_financial_history: the body under try, and except Exception at lines
\* 163-165.
get_financial_history(p) ==
    IF fetch_page_raises(p)
    THEN [lucros_anuais |-> <<>>, lucro_ultimo_trimestre |-> None]
    ELSE [lucros_anuais |-> extrair_lucros_anuais(p.annual),
          lucro_ultimo_trimestre |-> extrair_lucro_ultimo_trimestre(p.quarterly)]

\* scraper.get_financial_history(ticker) is called on the page of the ticker.
GetFinancialHistory ==
    /\ page # None
    /\ financial_history = None
    /\ financial_history' = Some(get_financial_history(page[1]))
    /\ UNCHANGED << page, lpa_payout, appVars, analyzerVars, requestVars >>

HistoryInit ==
    /\ AppInit
    /\ AnalyzerIdle
    /\ RequestIdle
    /\ page \in {Some(p) : p \in HistoryPages(MaxCells)}
    /\ lpa_payout = None
    /\ financial_history = None

HistoryNext == GetFinancialHistory

SpecHistory == HistoryInit /\ [][HistoryNext]_vars

----------------------------------------------------------------------------
(* StockAnalyzer: the criteria *)

Num(k) == [m |-> k, e |-> 0]

\* Profits, in BRL: a loss, zero and gains.
Profits == {Num(-5), Num(0), Num(10), Num(15), Num(20)}

\* Payout ratios: 0.29, 0.30, 0.45, 5.00, 5.01 and 45.
Payouts == {[m |-> 29, e |-> 2], [m |-> 3, e |-> 1], [m |-> 45, e |-> 2],
            Num(5), [m |-> 501, e |-> 2], Num(45)}

\* A history yf.download returned for one ticker: the call raised, or it
\* returned a frame of `rows` rows; `mean` is the mean of Close * Volume in
\* BRL and `vol` the annualised volatility of the closes, where defined.
History(kind, rows, mean, vol) ==
    [kind |-> kind, rows |-> rows, mean |-> mean, vol |-> vol]

\* line 16: volume_minimo_diario_brl
volume_minimo_diario_brl == 3000000

MeanVolumes == {volume_minimo_diario_brl - 1, volume_minimo_diario_brl,
                volume_minimo_diario_brl + 1}

SubjectVols == {25, 37, 39}

Histories ==
    {History("error", 0, 0, NaN)}
    \cup {History("data", r, m, v) :
            r \in 0..MaxObs, m \in MeanVolumes, v \in SubjectVols}

\* hist_data.empty
HistoryEmpty(h) == h.rows = 0

\* verificar_liquidez_minima, on what yf.download did.
verificar_liquidez_minima(h) ==
    IF h.kind = "error" THEN FALSE
    ELSE IF HistoryEmpty(h) THEN FALSE
    ELSE h.mean >= volume_minimo_diario_brl

\* verificar_lucro_positivo_ultimo_trimestre
verificar_lucro_positivo_ultimo_trimestre(lucro_ultimo_trimestre) ==
    IF lucro_ultimo_trimestre = None THEN FALSE
    ELSE NumLess(Num(0), lucro_ultimo_trimestre[1])

\* The argument lucros_anuais, of at most n items: a Python list, or a value
\* that is no list (a tuple of the same items).
ProfitLists(n) ==
    [list : BOOLEAN, items : UNION {[1..k -> Profits] : k \in 0..n}]

\* A loop that lets equal consecutive profits pass.
verificar_lucros_crescentes_nao_estrito(lucros_anuais) ==
    IF ~lucros_anuais.list \/ Len(lucros_anuais.items) < 3 THEN FALSE
    ELSE \A i \in 1..(Len(lucros_anuais.items) - 1) :
            ~NumLess(lucros_anuais.items[i + 1], lucros_anuais.items[i])

\* verificar_lucros_crescentes_3_anos: lines 86-97.
verificar_lucros_crescentes_3_anos(lucros_anuais) ==
    IF ~lucros_anuais.list \/ Len(lucros_anuais.items) < 3 THEN FALSE
    ELSE \A i \in 1..(Len(lucros_anuais.items) - 1) :
            ~NumLeq(lucros_anuais.items[i + 1], lucros_anuais.items[i])

\* verificar_limites_payout: 0.30 <= payout_valor <= 5.00
verificar_limites_payout(payout_valor) ==
    IF payout_valor = None THEN FALSE
    ELSE /\ NumLeq([m |-> 3, e |-> 1], payout_valor[1])
         /\ NumLeq(payout_valor[1], Num(5))

\* Float comparison: false when either side is NaN.
VolLess(a, b) == a # NaN /\ b # NaN /\ a < b

RECURSIVE SortedValues(_, _)
\* The values of series f at the indices S, in ascending order.
SortedValues(f, S) ==
    IF S = {} THEN <<>>
    ELSE LET i == CHOOSE i \in S : \A j \in S : f[i] <= f[j]
         IN  <<f[i]>> \o SortedValues(f, S \ {i})

\* Ten times Series.quantile(0.90): NaN entries are skipped, the sorted values
\* v[1..n] are interpolated linearly at position 0.9 * (n - 1).
Quantile90x10(series) ==
    LET v == SortedValues(series, {i \in DOMAIN series : series[i] # NaN})
        n == Len(v)
        lo == (9 * (n - 1)) \div 10
        r == (9 * (n - 1)) % 10
    IN  IF n = 0 THEN NaN
        ELSE IF r = 0 THEN 10 * v[lo + 1]
        ELSE 10 * v[lo + 1] + r * (v[lo + 2] - v[lo + 1])

\* volatilidade_anualizada of the subject: NaN for a single return.
volatilidade_anualizada(h) == IF h.rows = 2 THEN NaN ELSE h.vol

\* The comparison with the threshold, less-or-equal in place of less.
criterio_volatil_nao_estrito(vol, limite10) ==
    vol # NaN /\ limite10 # NaN /\ 10 * vol <= limite10

\* line 164: volatilidade_anualizada < limite_primeiro_decil
criterio_volatil(vol, limite10) ==
    vol # NaN /\ limite10 # NaN /\ 10 * vol < limite10

\* verificar_menos_volatil, on what yf.download did and the benchmark
\* (None or a Series).
verificar_menos_volatil(h, volatilidade_outras_acoes) ==
    IF h.kind = "error" THEN FALSE
    ELSE IF HistoryEmpty(h) \/ h.rows < 2 THEN FALSE
    ELSE IF volatilidade_outras_acoes = None THEN FALSE
    ELSE IF DOMAIN volatilidade_outras_acoes[1] = {} THEN FALSE
    ELSE criterio_volatil(volatilidade_anualizada(h),
                          Quantile90x10(volatilidade_outras_acoes[1]))

\* Benchmarks handed to verificar_menos_volatil: None, or a Series of at most
\* n entries.
BenchVols == {10, 20, 30, 40, NaN}

Benchmarks(n) ==
    {None} \cup {Some(f) : f \in UNION {[S -> BenchVols] : S \in SUBSET (1..n)}}

\* The histories that matter to the volatility criterion.
VolHistories ==
    {h \in Histories : h.kind = "error" \/ h.mean = volume_minimo_diario_brl}

\* StockAnalyzer.verificar_altos_dividendos_ponderados

\* Days between start_date_36m and end_date (datetime.now()).
start_date_36m == 36 * 30 + 15

\* Dates of the rows of the frame, in days before end_date: the download
\* starts at start_date_36m, and the window limits fall between them.
DiasAtras == {a \in {0, 365, 366, 730, 731, 1095, 1096} : a <= start_date_36m}

\* Dividend paid on a day, and last close of the frame.
Divs == {0, 2, 3, 4, 5}

Prices == {0, 100}

\* The dividends the company paid on at most n days of the period.
PaidDividends(n) ==
    UNION {[S -> Divs] : S \in {T \in SUBSET DiasAtras : Cardinality(T) <= n}}

\* What yf.download gave for the ticker: the call raised, or a frame with one
\* row per day of `paid`, the last close `price`, and a 'Dividends' column
\* only when the download carries the actions (`actions`; yf.download is
\* called without asking for them).
DividendHistory(kind, actions, price, paid) ==
    [kind |-> kind, actions |-> actions, price |-> price, paid |-> paid]

DividendFrames(n) ==
    {DividendHistory("error", FALSE, 0, <<>>)}
    \cup {DividendHistory("data", a, p, d) :
            a \in BOOLEAN, p \in Prices, d \in PaidDividends(n)}

\* The frames check_stock is run on.
DividendHistories ==
    {DividendHistory("error", FALSE, 0, <<>>),
     DividendHistory("data", TRUE, 0, <<>>),
     DividendHistory("data", FALSE, 100, (0 :> 5) @@ (366 :> 5) @@ (731 :> 5)),
     DividendHistory("data", TRUE, 100, (0 :> 4) @@ (366 :> 3) @@ (731 :> 2)),
     DividendHistory("data", TRUE, 100, (0 :> 5) @@ (366 :> 5) @@ (731 :> 5))}

\* hist_data.empty
DividendFrameEmpty(h) == DOMAIN h.paid = {}

RECURSIVE SumOver(_, _)
\* Series.sum() of the rows S of column f.
SumOver(f, S) ==
    IF S = {} THEN 0
    ELSE LET a == CHOOSE x \in S : TRUE
         IN  f[a] + SumOver(f, S \ {a})

\* The rows selected for each period: index >= end_date - timedelta(days=d)
\* is a date at most d days back.
rows_last_12m(h) == {a \in DOMAIN h.paid : a <= 365}

rows_last_24m(h) == {a \in DOMAIN h.paid : a <= 2 * 365 /\ a > 365}

rows_last_36m_rest(h) == {a \in DOMAIN h.paid : a <= 3 * 365 /\ a > 2 * 365}

\* Sums and a price whose weighted yield is 0.04 in exact arithmetic and
\* 0.039999999999999994 in the float arithmetic of lines 216-222 (all the
\* cases among sums of at most two values of Divs per window).
dy_ponderado_arredondado_abaixo ==
    {<<2, 4, 9, 100>>, <<2, 6, 6, 100>>, <<6, 2, 2, 100>>}

\* dy_ponderado >= dy_minimo_ponderado with the default pesos 0.5, 0.3, 0.2
\* and dy_minimo_ponderado 0.04; each dy is 0 unless current_price > 0.
criterio_altos_dividendos(d12, d24, d36, current_price) ==
    IF current_price > 0
    THEN /\ 10 * (5 * d12 + 3 * d24 + 2 * d36) >= 4 * current_price
         /\ <<d12, d24, d36, current_price>> \notin dy_ponderado_arredondado_abaixo
    ELSE FALSE

\* verificar_altos_dividendos_ponderados: hist_data['Dividends'] raises
\* KeyError on a frame without the column, and the except returns False.
verificar_altos_dividendos_ponderados(h) ==
    IF h.kind = "error" THEN FALSE
    ELSE IF DividendFrameEmpty(h) THEN FALSE
    ELSE IF ~h.actions THEN FALSE
    ELSE IF h.price = 0 THEN FALSE
    ELSE criterio_altos_dividendos(SumOver(h.paid, rows_last_12m(h)),
                                   SumOver(h.paid, rows_last_24m(h)),
                                   SumOver(h.paid, rows_last_36m_rest(h)),
                                   h.price)

\* The calls of the criteria with at most np profits and nb benchmark entries.
Calls(np, nb) ==
    {[fn |-> "lucros_crescentes", arg |-> l] : l \in ProfitLists(np)}
    \cup {[fn |-> "menos_volatil", arg |-> [hist |-> h, bench |-> b]] :
            h \in VolHistories, b \in Benchmarks(nb)}

\* analyzer.verificar_lucros_crescentes_3_anos(ticker, lucros_anuais)
VerificarLucrosCrescentes ==
    /\ chamada # None /\ retorno = None
    /\ chamada[1].fn = "lucros_crescentes"
    /\ retorno' = Some(verificar_lucros_crescentes_3_anos(chamada[1].arg))
    /\ UNCHANGED << chamada, appVars, scraperVars, requestVars >>

\* analyzer.verificar_menos_volatil(ticker, volatilidade_outras_acoes)
VerificarMenosVolatil ==
    /\ chamada # None /\ retorno = None
    /\ chamada[1].fn = "menos_volatil"
    /\ retorno' = Some(verificar_menos_volatil(chamada[1].arg.hist, chamada[1].arg.bench))
    /\ UNCHANGED << chamada, appVars, scraperVars, requestVars >>

\* analyzer.verificar_altos_dividendos_ponderados(ticker)
VerificarAltosDividendos ==
    /\ chamada # None /\ retorno = None
    /\ chamada[1].fn = "altos_dividendos"
    /\ retorno' = Some(verificar_altos_dividendos_ponderados(chamada[1].arg))
    /\ UNCHANGED << chamada, appVars, scraperVars, requestVars >>

AnalyzerInit ==
    /\ AppInit
    /\ ScraperIdle
    /\ RequestIdle
    /\ chamada \in {Some(c) : c \in Calls(MaxProfits, MaxBench)}
    /\ retorno = None

AnalyzerNext ==
    \/ VerificarLucrosCrescentes
    \/ VerificarMenosVolatil

SpecAnalyzer == AnalyzerInit /\ [][AnalyzerNext]_vars

\* The dividends criterion called on every frame of at most MaxDividendRows
\* rows.
DividendosInit ==
    /\ AppInit
    /\ ScraperIdle
    /\ RequestIdle
    /\ chamada \in {Some([fn |-> "altos_dividendos", arg |-> h]) :
                        h \in DividendFrames(MaxDividendRows)}
    /\ retorno = None

DividendosNext == VerificarAltosDividendos

SpecDividendos == DividendosInit /\ [][DividendosNext]_vars

----------------------------------------------------------------------------
(* check_stock *)

\* The entries check_stock appends to resultados['erros'].
ERRO_LPA_PAYOUT == "Nao foi possivel obter dados de LPA/Payout via scraping."

ERRO_HISTORICO == "Nao foi possivel obter historico de lucros via scraping."

ERRO_VOLATILIDADE == "Dados de volatilidade do mercado nao disponiveis para comparacao."

ERRO_INESPERADO == "Erro inesperado no servidor"

\* Records get_lpa_payout returns.
LpaPayoutRecords ==
    [lpa : {None, Some(Num(4))}, payout : {None, Some([m |-> 45, e |-> 2])}]

\* Records get_financial_history returns.
FinancialHistoryRecords ==
    [lucros_anuais : UNION {[1..k -> {Num(10), Num(15), Num(20)}] : k \in 0..MaxLucrosAnuais},
     lucro_ultimo_trimestre : {None, Some(Num(-5)), Some(Num(10))}]

\* Histories by what each market criterion reads of them.
LiquidezHistories ==
    {h \in Histories : \/ h.kind = "error"
                       \/ /\ h.vol = 25
                          /\ h.rows <= 1
                          /\ (h.rows = 0 => h.mean = volume_minimo_diario_brl)}

VolatilHistories ==
    {h \in VolHistories : h.vol # 37 /\ (h.rows < 3 => h.vol \in {NaN, 25})}

\* Benchmarks setup_application can have built: the empty Series of a failed
\* download, and the Series of a download complete for every ticker.
BuiltBenchmarks ==
    {calculate_market_volatility(d) :
        d \in {x \in Downloads :
                  \/ x.kind # "data"
                  \/ /\ DOMAIN x.close = tickers_para_benchmark
                     /\ x.rows = MaxObs
                     /\ \A t \in tickers_para_benchmark :
                           NumObservations(x.close[t]) = MaxObs}}

SetFlag_(c, v) == [resultados EXCEPT !.flags[c] = v]

AppendErro(e) == [resultados EXCEPT !.erros = Append(@, e)]

\* The request is at statement p and has not responded.
Em(p) == passo = p /\ status = None

\* lines 122-123: both scraper calls.
Scrape ==
    /\ Em("scrape")
    /\ \E lp \in LpaPayoutRecords, fh \in FinancialHistoryRecords :
          dados' = Some([lpa_payout_data |-> lp, financial_history_data |-> fh])
    /\ passo' = "aviso_lpa"
    /\ UNCHANGED << resultados, mercado, status, appVars, scraperVars, analyzerVars >>

\* An advisory that tests lpa alone.
AvisoLpaPayoutSoLpa ==
    /\ Em("aviso_lpa")
    /\ resultados' = IF dados[1].lpa_payout_data.lpa # None
                      THEN resultados
                      ELSE AppendErro(ERRO_LPA_PAYOUT)
    /\ passo' = "aviso_hist"
    /\ UNCHANGED << dados, mercado, status, appVars, scraperVars, analyzerVars >>

\* lines 125-129
AvisoLpaPayout ==
    /\ Em("aviso_lpa")
    /\ LET lp == dados[1].lpa_payout_data IN
          resultados' = IF lp.lpa # None /\ lp.payout # None
                        THEN resultados
                        ELSE AppendErro(ERRO_LPA_PAYOUT)
    /\ passo' = "aviso_hist"
    /\ UNCHANGED << dados, mercado, status, appVars, scraperVars, analyzerVars >>

\* An advisory with one entry per missing part of the history.
AvisoHistoricoPorCampo ==
    /\ Em("aviso_hist")
    /\ LET fh == dados[1].financial_history_data
           r1 == IF fh.lucro_ultimo_trimestre # None THEN resultados
                 ELSE AppendErro(ERRO_HISTORICO)
       IN  resultados' = IF fh.lucros_anuais # <<>> THEN r1
                         ELSE [r1 EXCEPT !.erros = Append(@, ERRO_HISTORICO)]
    /\ passo' = "liquidez"
    /\ UNCHANGED << dados, mercado, status, appVars, scraperVars, analyzerVars >>

\* lines 131-135
AvisoHistorico ==
    /\ Em("aviso_hist")
    /\ LET fh == dados[1].financial_history_data IN
          resultados' = IF fh.lucro_ultimo_trimestre # None /\ fh.lucros_anuais # <<>>
                        THEN resultados
                        ELSE AppendErro(ERRO_HISTORICO)
    /\ passo' = "liquidez"
    /\ UNCHANGED << dados, mercado, status, appVars, scraperVars, analyzerVars >>

\* line 138
Liquidez ==
    /\ Em("liquidez")
    /\ \E h \in LiquidezHistories :
          /\ mercado' = [mercado EXCEPT !["liquidez_minima"] = Some(h)]
          /\ resultados' = SetFlag_("liquidez_minima", verificar_liquidez_minima(h))
    /\ passo' = "lucro_trimestre"
    /\ UNCHANGED << dados, status, appVars, scraperVars, analyzerVars >>

\* lines 141-143
LucroTrimestre ==
    /\ Em("lucro_trimestre")
    /\ resultados' = SetFlag_("lucro_positivo_ult_trimestre",
          verificar_lucro_positivo_ultimo_trimestre(
              dados[1].financial_history_data.lucro_ultimo_trimestre))
    /\ passo' = "lucros_anuais"
    /\ UNCHANGED << dados, mercado, status, appVars, scraperVars, analyzerVars >>

\* lines 144-146
LucrosAnuais ==
    /\ Em("lucros_anuais")
    /\ resultados' = SetFlag_("lucros_crescentes_3_anos",
          verificar_lucros_crescentes_3_anos(
              [list |-> TRUE, items |-> dados[1].financial_history_data.lucros_anuais]))
    /\ passo' = "payout"
    /\ UNCHANGED << dados, mercado, status, appVars, scraperVars, analyzerVars >>

\* lines 147-149
Payout ==
    /\ Em("payout")
    /\ resultados' = SetFlag_("limites_payout",
          verificar_limites_payout(dados[1].lpa_payout_data.payout))
    /\ passo' = "volatil"
    /\ UNCHANGED << dados, mercado, status, appVars, scraperVars, analyzerVars >>

\* lines 153-160
Volatil ==
    /\ Em("volatil")
    /\ IF BenchmarkDisponivel(global_volatilidade_mercado)
       THEN \E h \in VolatilHistories :
               /\ mercado' = [mercado EXCEPT !["menos_volatil"] = Some(h)]
               /\ resultados' = SetFlag_("menos_volatil",
                     verificar_menos_volatil(h, global_volatilidade_mercado))
       ELSE /\ mercado' = mercado
            /\ resultados' = [AppendErro(ERRO_VOLATILIDADE) EXCEPT !.flags["menos_volatil"] = FALSE]
    /\ passo' = "dividendos"
    /\ UNCHANGED << dados, status, appVars, scraperVars, analyzerVars >>

\* line 162
Dividendos ==
    /\ Em("dividendos")
    /\ \E h \in DividendHistories :
          /\ mercado' = [mercado EXCEPT !["altos_dividendos"] = Some(h)]
          /\ resultados' = SetFlag_("altos_dividendos",
                verificar_altos_dividendos_ponderados(h))
    /\ passo' = "agregar"
    /\ UNCHANGED << dados, status, appVars, scraperVars, analyzerVars >>

\* An aggregate that leaves the dividends flag out.
TodosCriteriosSemDividendos(r) ==
    \A c \in Criterios \ {"altos_dividendos"} : r.flags[c]

\* lines 164-171: all([...]) over the six flags
TodosCriterios(r) == \A c \in Criterios : r.flags[c]

\* lines 164-176: the aggregate and the response, HTTP 200.
Agregar ==
    /\ Em("agregar")
    /\ resultados' = [resultados EXCEPT !.todos_criterios_atendidos = TodosCriterios(resultados)]
    /\ status' = Some(200)
    /\ passo' = "fim"
    /\ UNCHANGED << dados, mercado, appVars, scraperVars, analyzerVars >>

\* The statements under try at which an exception can be raised.
PassosDeAvaliacao ==
    {"scrape", "aviso_lpa", "aviso_hist", "liquidez", "lucro_trimestre",
     "lucros_anuais", "payout", "volatil", "dividendos", "agregar"}

\* An except branch that reports the exception alone.
ExcecaoSemErrosAnteriores ==
    /\ passo \in PassosDeAvaliacao
    /\ status = None
    /\ resultados' = [resultados EXCEPT !.erros = <<ERRO_INESPERADO>>]
    /\ status' = Some(500)
    /\ UNCHANGED << passo, dados, mercado, appVars, scraperVars, analyzerVars >>

\* lines 178-181: an exception escaped the statement the request is at; passo
\* stays at that statement.
Excecao ==
    /\ passo \in PassosDeAvaliacao
    /\ status = None
    /\ resultados' = AppendErro(ERRO_INESPERADO)
    /\ status' = Some(500)
    /\ UNCHANGED << passo, dados, mercado, appVars, scraperVars, analyzerVars >>

\* The setup is complete, and a request enters check_stock: lines 104-117.
CheckInit ==
    /\ setup_complete = TRUE
    /\ global_volatilidade_mercado \in {Some(b) : b \in BuiltBenchmarks}
    /\ pc = [t \in Threads |-> "idle"]
    /\ volatilidades = [t \in Threads |-> None]
    /\ lido = [t \in Threads |-> None]
    /\ builds = 1
    /\ ScraperIdle
    /\ AnalyzerIdle
    /\ passo = "scrape"
    /\ resultados = ResultadosIniciais
    /\ dados = None
    /\ mercado = [c \in CriteriosDeMercado |-> None]
    /\ status = None

CheckNext ==
    \/ Scrape
    \/ AvisoLpaPayout
    \/ AvisoHistorico
    \/ Liquidez
    \/ LucroTrimestre
    \/ LucrosAnuais
    \/ Payout
    \/ Volatil
    \/ Dividendos
    \/ Agregar

\* check_stock where every call returns.
SpecCheck == CheckInit /\ [][CheckNext]_vars

CheckFaultNext ==
    \/ CheckNext
    \/ Excecao

\* check_stock where any statement under try may raise.
SpecCheckFault == CheckInit /\ [][CheckFaultNext]_vars

----------------------------------------------------------------------------
(* The application serving requests *)

Init ==
    /\ AppInit
    /\ ScraperIdle
    /\ AnalyzerIdle
    /\ RequestIdle

Next ==
    \E t \in Threads :
        \/ BeginRequest(t)
        \/ Build(t)
        \/ Assign(t)
        \/ SetFlag(t)
        \/ CheckStockRead(t)
        \/ Respond(t)

Spec == Init /\ [][Next]_vars

----------------------------------------------------------------------------
(* Properties of the first-request setup *)

\* C1: concurrent first requests run calculate_market_volatility exactly once
\* in total: never more than one build, and one build once setup is complete.
C1_ExactlyOneBuild == builds <= 1 /\ (setup_complete => builds = 1)

\* C2: once setup_complete is true, every step of a request that begins, reads
\* the benchmark or responds leaves global_volatilidade_mercado and
\* setup_complete unchanged and starts no build, whatever the benchmark holds.
C2_LaterRequestsLeaveBenchmark ==
    [][\A t \in Threads :
          (setup_complete /\ pc[t] \in {"idle", "handler", "respond"} /\ pc'[t] # pc[t])
              => /\ pc'[t] \in {"idle", "handler", "respond"}
                 /\ global_volatilidade_mercado' = global_volatilidade_mercado
                 /\ setup_complete' = setup_complete
                 /\ builds' = builds]_vars

\* A single build produced the empty Series and every thread has since read it
\* in check_stock: at most one of these requests built, the others came later.
C2_Witness ==
    /\ setup_complete
    /\ builds = 1
    /\ global_volatilidade_mercado = Some(<<>>)
    /\ \A t \in Threads : pc[t] = "respond" /\ lido[t] = Some(Some(<<>>))

----------------------------------------------------------------------------
(* Properties of get_lpa_payout *)

\* The extraction of one field fails: its label is not found, no value follows
\* the label, or the value's text is not a number.
FieldFailure(loc) == loc.found # "strong" \/ ~IsFloat(CleanedValue(loc.text))

\* C3 (as claimed): get_lpa_payout never raises, and after any transport or
\* parse failure both lpa and payout of the returned record are null.
C3_AllNullOnAnyFailure ==
    lpa_payout # None =>
        /\ ~lpa_payout[1].raised
        /\ (fetch_page_raises(page[1]) \/ FieldFailure(page[1].lpa) \/ FieldFailure(page[1].payout))
              => (lpa_payout[1].value.lpa = None /\ lpa_payout[1].value.payout = None)

\* C3 (amended): get_lpa_payout never raises; after a transport failure both
\* fields are null; otherwise each field is null exactly when its own
\* extraction failed, whatever happened to the other field.
C3_NullPerField ==
    lpa_payout # None =>
        /\ ~lpa_payout[1].raised
        /\ fetch_page_raises(page[1])
              => (lpa_payout[1].value.lpa = None /\ lpa_payout[1].value.payout = None)
        /\ ~fetch_page_raises(page[1])
              => /\ (lpa_payout[1].value.lpa = None) <=> FieldFailure(page[1].lpa)
                 /\ (lpa_payout[1].value.payout = None) <=> FieldFailure(page[1].payout)

\* The page was fetched, it has no LPA heading, and its payout reads "45%":
\* the record returned has a null lpa next to a payout.
C3_Witness ==
    /\ lpa_payout # None
    /\ page[1].fetch = "ok"
    /\ page[1].lpa.found = "no_h3"
    /\ page[1].payout = [found |-> "strong", text |-> <<"4", "5", "%">>]
    /\ lpa_payout[1].value.lpa = None
    /\ lpa_payout[1].value.payout # None

\* The percentage a payout text displays: its number in the Brazilian format,
\* the percent sign aside.
DisplayedPercentage(text) == FloatValue(CleanedValue(text))

\* C4: a payout that get_lpa_payout parsed from a text displaying N% is stored
\* as the decimal fraction N / 100.
C4_PayoutStoredAsFraction ==
    (lpa_payout # None /\ lpa_payout[1].value.payout # None) =>
        LET stored == lpa_payout[1].value.payout[1]
            shown == DisplayedPercentage(page[1].payout.text)
        IN  100 * stored.m * Pow10(shown.e) = shown.m * Pow10(stored.e)

----------------------------------------------------------------------------
(* Properties of the criteria *)

\* The profits 10, 10, 20 and 10, 15, 20 of the examples.
Profits_10_10_20 == <<Num(10), Num(10), Num(20)>>

Profits_10_15_20 == <<Num(10), Num(15), Num(20)>>

\* C9: verificar_lucros_crescentes_3_anos returns true if and only if its
\* input is a list of at least 3 values, each strictly greater than the one
\* before; so [10, 10, 20] gives false and [10, 15, 20] gives true.
C9_GrowthIffStrictlyIncreasing ==
    (chamada # None /\ retorno # None) =>
        (chamada[1].fn = "lucros_crescentes" =>
            LET l == chamada[1].arg IN
                /\ retorno[1] <=>
                      /\ l.list
                      /\ Len(l.items) >= 3
                      /\ \A i \in 1..(Len(l.items) - 1) : NumLess(l.items[i], l.items[i + 1])
                /\ (l.list /\ l.items = Profits_10_10_20) => ~retorno[1]
                /\ (l.list /\ l.items = Profits_10_15_20) => retorno[1]
                /\ Len(l.items) < 3 => ~retorno[1])

\* The criterion accepted the list [10, 15, 20].
C9_Witness ==
    /\ chamada # None /\ retorno = Some(TRUE)
    /\ chamada[1].fn = "lucros_crescentes"
    /\ chamada[1].arg = [list |-> TRUE, items |-> Profits_10_15_20]

\* The benchmark of the example: four entries with the values 0.10, 0.20, 0.30, 0.40.
ExampleBenchmark(b) ==
    /\ b # None
    /\ Cardinality(DOMAIN b[1]) = 4
    /\ {b[1][i] : i \in DOMAIN b[1]} = {10, 20, 30, 40}

\* C10: verificar_menos_volatil returns true only when the benchmark is a
\* non-empty Series and the subject's volatility is strictly below the
\* Series' linearly interpolated 90th percentile. For the benchmark
\* {0.10, 0.20, 0.30, 0.40} the percentile is 0.37: a subject volatility of
\* 0.25 gives true, 0.39 gives false and 0.37 gives false.
C10_BelowNinetiethPercentile ==
    (chamada # None /\ retorno # None) =>
        (chamada[1].fn = "menos_volatil" =>
            LET h == chamada[1].arg.hist
                b == chamada[1].arg.bench
                vol == volatilidade_anualizada(h)
            IN  /\ retorno[1] =>
                      /\ b # None
                      /\ DOMAIN b[1] # {}
                      /\ vol # NaN
                      /\ VolLess(10 * vol, Quantile90x10(b[1]))
                /\ (b = None \/ b = Some(<<>>)) => ~retorno[1]
                /\ ExampleBenchmark(b) =>
                      /\ Quantile90x10(b[1]) = 370
                      /\ (h.kind = "data" /\ h.rows >= 3) =>
                            /\ vol = 25 => retorno[1]
                            /\ vol = 39 => ~retorno[1]
                            /\ vol = 37 => ~retorno[1])

\* The criterion accepted a subject of volatility 0.25 against the benchmark
\* of the example.
C10_Witness ==
    /\ chamada # None /\ retorno = Some(TRUE)
    /\ chamada[1].fn = "menos_volatil"
    /\ ExampleBenchmark(chamada[1].arg.bench)
    /\ chamada[1].arg.hist.rows = 3
    /\ chamada[1].arg.hist.vol = 25

----------------------------------------------------------------------------
(* Properties of check_stock *)

\* The statements of check_stock in program order, and the one that sets the
\* flag of each criterion.
PassosEmOrdem ==
    <<"scrape", "aviso_lpa", "aviso_hist", "liquidez", "lucro_trimestre",
      "lucros_anuais", "payout", "volatil", "dividendos", "agregar", "fim">>

Ordem(p) == CHOOSE i \in DOMAIN PassosEmOrdem : PassosEmOrdem[i] = p

PassoDoCriterio(c) ==
    CASE c = "liquidez_minima" -> "liquidez"
      [] c = "lucro_positivo_ult_trimestre" -> "lucro_trimestre"
      [] c = "lucros_crescentes_3_anos" -> "lucros_anuais"
      [] c = "limites_payout" -> "payout"
      [] c = "menos_volatil" -> "volatil"
      [] c = "altos_dividendos" -> "dividendos"

\* The statement that sets the flag of c has run.
Avaliado(c) == Ordem(passo) > Ordem(PassoDoCriterio(c))

\* What the predicate of criterion c gives on the inputs of this request.
ValorDoCriterio(c) ==
    CASE c = "liquidez_minima" ->
            verificar_liquidez_minima(mercado[c][1])
      [] c = "lucro_positivo_ult_trimestre" ->
            verificar_lucro_positivo_ultimo_trimestre(
                dados[1].financial_history_data.lucro_ultimo_trimestre)
      [] c = "lucros_crescentes_3_anos" ->
            verificar_lucros_crescentes_3_anos(
                [list |-> TRUE, items |-> dados[1].financial_history_data.lucros_anuais])
      [] c = "limites_payout" ->
            verificar_limites_payout(dados[1].lpa_payout_data.payout)
      [] c = "menos_volatil" ->
            verificar_menos_volatil(mercado[c][1], global_volatilidade_mercado)
      [] c = "altos_dividendos" ->
            verificar_altos_dividendos_ponderados(mercado[c][1])

\* C5: in a result returned with HTTP 200, todos_criterios_atendidos is the
\* conjunction of the six flags, each flag is what its predicate gives on the
\* request's inputs whatever the earlier flags are, and one false flag makes
\* the aggregate false.
C5_AggregateIsConjunction ==
    status = Some(200) =>
        /\ resultados.todos_criterios_atendidos <=> (\A c \in Criterios : resultados.flags[c])
        /\ \A c \in CriteriosDeMercado : mercado[c] # None
        /\ \A c \in Criterios : resultados.flags[c] = ValorDoCriterio(c)
        /\ \A c \in Criterios :
              ~resultados.flags[c] => ~resultados.todos_criterios_atendidos

\* The liquidity criterion failed first, the five later criteria passed, and
\* the aggregate is false.
C5_Witness ==
    /\ status = Some(200)
    /\ ~resultados.flags["liquidez_minima"]
    /\ \A c \in Criterios \ {"liquidez_minima"} : resultados.flags[c]
    /\ ~resultados.todos_criterios_atendidos

\* The input of criterion c is null, or its series is empty or too short.
Insuficiente(c) ==
    CASE c = "liquidez_minima" ->
            mercado[c][1].kind = "error" \/ mercado[c][1].rows = 0
      [] c = "lucro_positivo_ult_trimestre" ->
            dados[1].financial_history_data.lucro_ultimo_trimestre = None
      [] c = "lucros_crescentes_3_anos" ->
            Len(dados[1].financial_history_data.lucros_anuais) < 3
      [] c = "limites_payout" ->
            dados[1].lpa_payout_data.payout = None
      [] c = "menos_volatil" ->
            \/ mercado[c][1].kind = "error" \/ mercado[c][1].rows < 2
            \/ global_volatilidade_mercado = None
            \/ global_volatilidade_mercado = Some(<<>>)
      [] c = "altos_dividendos" ->
            \/ mercado[c][1].kind = "error"
            \/ DividendFrameEmpty(mercado[c][1])
            \/ ~mercado[c][1].actions

\* The entries of erros that report an insufficiency of criterion c.
ErrosDoCriterio(c) ==
    CASE c = "liquidez_minima" -> {}
      [] c = "lucro_positivo_ult_trimestre" -> {ERRO_HISTORICO}
      [] c = "lucros_crescentes_3_anos" -> {ERRO_HISTORICO}
      [] c = "limites_payout" -> {ERRO_LPA_PAYOUT}
      [] c = "menos_volatil" -> {ERRO_VOLATILIDADE}
      [] c = "altos_dividendos" -> {}

Erros == {resultados.erros[i] : i \in DOMAIN resultados.erros}

\* C6 (as claimed): in a returned result, a criterion whose input is null or
\* whose series is empty or too short has a false flag and an entry in erros.
C6_InsufficiencyFalseAndReported ==
    status = Some(200) =>
        \A c \in Criterios :
            Insuficiente(c) => (~resultados.flags[c] /\ Erros \cap ErrosDoCriterio(c) # {})

\* C6 (amended): in a returned result, a criterion whose input is null or
\* whose series is empty or too short has a false flag; erros holds the
\* LPA/Payout entry exactly when lpa or payout is null, the history entry
\* exactly when the last-quarter profit is null or the annual list is empty,
\* each once, and nothing else.
C6_InsufficiencyFalse ==
    status = Some(200) =>
        LET lp == dados[1].lpa_payout_data
            fh == dados[1].financial_history_data
        IN  /\ \A c \in Criterios : Insuficiente(c) => ~resultados.flags[c]
            /\ resultados.erros =
                  (IF lp.lpa = None \/ lp.payout = None THEN <<ERRO_LPA_PAYOUT>> ELSE <<>>)
                  \o (IF fh.lucro_ultimo_trimestre = None \/ fh.lucros_anuais = <<>>
                      THEN <<ERRO_HISTORICO>> ELSE <<>>)

\* The 90-day history was empty, the annual list has two values, the
\* fundamentals are otherwise present: the flags are false and erros is empty.
C6_Witness ==
    /\ status = Some(200)
    /\ mercado["liquidez_minima"][1].kind = "data"
    /\ mercado["liquidez_minima"][1].rows = 0
    /\ Len(dados[1].financial_history_data.lucros_anuais) = 2
    /\ ~resultados.flags["liquidez_minima"]
    /\ ~resultados.flags["lucros_crescentes_3_anos"]
    /\ resultados.erros = <<>>

\* The scraped fundamental data is entirely null.
FundamentosNulos ==
    /\ dados # None
    /\ dados[1].lpa_payout_data = [lpa |-> None, payout |-> None]
    /\ dados[1].financial_history_data =
          [lucros_anuais |-> <<>>, lucro_ultimo_trimestre |-> None]

\* C7: for entirely null fundamental data check_stock ends with HTTP 200, the
\* flags of criteria 2, 3 and 4 false, the aggregate false and exactly the two
\* advisory entries in erros, whatever the market criteria return; until it
\* has responded, its next statement can run.
C7_NullFundamentals ==
    FundamentosNulos =>
      /\ status = None => ENABLED CheckNext
      /\ status # None =>
        /\ status = Some(200)
        /\ ~resultados.flags["lucro_positivo_ult_trimestre"]
        /\ ~resultados.flags["lucros_crescentes_3_anos"]
        /\ ~resultados.flags["limites_payout"]
        /\ ~resultados.todos_criterios_atendidos
        /\ resultados.erros = <<ERRO_LPA_PAYOUT, ERRO_HISTORICO>>

\* Null fundamentals, and the three market criteria all passed.
C7_Witness ==
    /\ FundamentosNulos
    /\ status = Some(200)
    /\ \A c \in CriteriosDeMercado : resultados.flags[c]
    /\ Len(resultados.erros) = 2

\* The advisory entries collected by the statements before p.
ErrosAntesDe(p) ==
    LET lp == dados[1].lpa_payout_data
        fh == dados[1].financial_history_data
    IN  (IF Ordem(p) > Ordem("aviso_lpa") /\ (lp.lpa = None \/ lp.payout = None)
         THEN <<ERRO_LPA_PAYOUT>> ELSE <<>>)
        \o (IF /\ Ordem(p) > Ordem("aviso_hist")
                /\ (fh.lucro_ultimo_trimestre = None \/ fh.lucros_anuais = <<>>)
            THEN <<ERRO_HISTORICO>> ELSE <<>>)

----------------------------------------------------------------------------
(* C11 *)

\* The windows of the dividends criterion, most recent first.
Janelas == {1, 2, 3}

RowsDaJanela(h, w) ==
    CASE w = 1 -> rows_last_12m(h)
      [] w = 2 -> rows_last_24m(h)
      [] w = 3 -> rows_last_36m_rest(h)

\* The frame of the finished call of the dividends criterion.
DividendosVerificados ==
    /\ chamada # None /\ retorno # None
    /\ chamada[1].fn = "altos_dividendos"

\* The weighted yield of the dividends paid, in exact arithmetic, reaches
\* the minimum 0.04.
RendimentoPonderadoAtinge(h) ==
    10 * (5 * SumOver(h.paid, RowsDaJanela(h, 1))
          + 3 * SumOver(h.paid, RowsDaJanela(h, 2))
          + 2 * SumOver(h.paid, RowsDaJanela(h, 3))) >= 4 * h.price

\* C11: verificar_altos_dividendos_ponderados puts every dividend paid
\* within the last 3 * 365 days in exactly one of the three windows, and
\* returns true if and only if the current price is available and above
\* zero and the weighted yield of the window sums is at least 0.04; window
\* sums 4, 3, 2 at price 100 give false.
C11_WeightedYieldIff ==
    DividendosVerificados =>
        LET h == chamada[1].arg
        IN  /\ \A a \in DOMAIN h.paid :
                  a <= 3 * 365 =>
                      Cardinality({w \in Janelas : a \in RowsDaJanela(h, w)}) = 1
            /\ retorno[1] = (/\ h.kind = "data"
                             /\ ~DividendFrameEmpty(h)
                             /\ h.price > 0
                             /\ RendimentoPonderadoAtinge(h))
            /\ (/\ h.kind = "data" /\ h.price = 100
                /\ SumOver(h.paid, RowsDaJanela(h, 1)) = 4
                /\ SumOver(h.paid, RowsDaJanela(h, 2)) = 3
                /\ SumOver(h.paid, RowsDaJanela(h, 3)) = 2) => ~retorno[1]

\* A frame without the 'Dividends' column for a ticker at price 100 that
\* paid 5 in each window: the criterion is false.
C11_Witness ==
    /\ DividendosVerificados
    /\ chamada[1].arg.kind = "data" /\ ~chamada[1].arg.actions
    /\ chamada[1].arg.price = 100
    /\ chamada[1].arg.paid = (0 :> 5) @@ (366 :> 5) @@ (731 :> 5)
    /\ ~retorno[1]

----------------------------------------------------------------------------
(* C12 *)

\* The values of the cells of a row that parse as numbers, in row order.
ValoresNumericos(cells) ==
    LET ok == SelectSeq([i \in DOMAIN cells |-> CleanedCell(cells[i])], IsFloat)
    IN  [i \in DOMAIN ok |-> FloatValue(ok[i])]

\* The last at most k elements of s.
Ultimos(s, k) == IF Len(s) <= k THEN s ELSE SubSeq(s, Len(s) - k + 1, Len(s))

\* The 3 most recent parsed values of a row, oldest to newest, for a row
\* that lists the newest year first or the oldest year first.
MaisRecentes(cells, newest_first) ==
    Ultimos(ValoresNumericos(IF newest_first THEN Reversed(cells) ELSE cells),
            MaxLucrosAnuais)

\* get_financial_history has returned for a page with an annual row.
LinhaAnualExtraida ==
    /\ page # None /\ financial_history # None
    /\ ~fetch_page_raises(page[1])
    /\ page[1].annual.found = "row"

\* C12 as stated: lucros_anuais has 0 to 3 values, the 3 most recent parsed
\* values of the annual row, oldest to newest, also when the row lists the
\* newest year first.
C12_MostRecentChronological ==
    LinhaAnualExtraida =>
        /\ Len(financial_history[1].lucros_anuais) \in 0..3
        /\ financial_history[1].lucros_anuais
              = MaisRecentes(page[1].annual.cells, page[1].newest_first)

\* A newest-first row of four cells, one of them not a number: the three
\* that parse are returned newest first.
C12_Witness ==
    /\ LinhaAnualExtraida
    /\ page[1].newest_first
    /\ page[1].annual.cells = << <<"5">>, <<"x">>, <<"4", ",", "5">>, <<"4">> >>
    /\ financial_history[1].lucros_anuais
          = << [m |-> 5, e |-> 0], [m |-> 45, e |-> 1], [m |-> 4, e |-> 0] >>

----------------------------------------------------------------------------
(* C13 *)

\* get_financial_history has returned for a fetched page.
HistoricoExtraido ==
    /\ page # None /\ financial_history # None
    /\ ~fetch_page_raises(page[1])

\* C13 as stated: lucro_ultimo_trimestre is the value of the first cell of
\* the quarterly row that parses as a number, and null only when the
\* heading, table or row is missing or no cell of the row parses.
C13_FirstNumericCell ==
    HistoricoExtraido =>
        LET sec == page[1].quarterly
            nums == ValoresNumericos(sec.cells)
        IN  financial_history[1].lucro_ultimo_trimestre
              = IF sec.found = "row" /\ nums # <<>> THEN Some(nums[1]) ELSE None

\* C13, amended: lucro_ultimo_trimestre is the value of the first cell of
\* the quarterly row when that cell parses as a number, and null when the
\* heading, table or row is missing, the row has no cell, or its first cell
\* does not parse, whatever the cells after it hold.
C13_FirstCellOnly ==
    HistoricoExtraido =>
        LET sec == page[1].quarterly
            got == financial_history[1].lucro_ultimo_trimestre
        IN  IF /\ sec.found = "row" /\ sec.cells # <<>>
               /\ IsFloat(CleanedCell(sec.cells[1]))
            THEN got = Some(FloatValue(CleanedCell(sec.cells[1])))
            ELSE got = None

\* A quarterly row whose first cell is not a number and whose second is:
\* null is returned.
C13_Witness ==
    /\ HistoricoExtraido
    /\ page[1].quarterly.found = "row"
    /\ page[1].quarterly.cells = << <<"x">>, <<"5">> >>
    /\ financial_history[1].lucro_ultimo_trimestre = None

----------------------------------------------------------------------------
(* C14 *)

\* calculate_market_volatility has returned.
BenchmarkCalculado ==
    /\ chamada # None /\ retorno # None
    /\ chamada[1].fn = "calculate_market_volatility"

\* The close-price observations of ticker t in the download d: none when the
\* download failed, came empty or has no column for t.
Observacoes(d, t) ==
    IF d.kind = "data" /\ t \in DOMAIN d.close
    THEN NumObservations(d.close[t])
    ELSE 0

\* C14: the distribution calculate_market_volatility returns has an entry
\* for a reference ticker only if the download holds at least 2 close prices
\* of it; a ticker with 0 or 1 observations, or absent from the download,
\* has no entry (none with value zero either), and a failed or empty
\* download gives the empty distribution.
C14_EntryNeedsTwoObservations ==
    BenchmarkCalculado =>
        LET d == chamada[1].arg
            r == retorno[1]
        IN  /\ DOMAIN r \subseteq tickers_para_benchmark
            /\ \A t \in DOMAIN r : Observacoes(d, t) >= 2
            /\ \A t \in tickers_para_benchmark :
                  Observacoes(d, t) <= 1 => t \notin DOMAIN r
            /\ d.kind \in {"error", "empty"} => r = <<>>

\* One ticker with a single close price followed by two rows without one,
\* on a pandas that pads: it is inserted with volatility 0.
C14_Witness ==
    /\ BenchmarkCalculado
    /\ chamada[1].arg.kind = "data"
    /\ DOMAIN chamada[1].arg.close = tickers_para_benchmark
    /\ chamada[1].arg.pad
    /\ chamada[1].arg.close["ITUB4"].obs = <<TRUE, FALSE, FALSE>>
    /\ chamada[1].arg.close["BBDC4"].obs = <<TRUE, TRUE, TRUE>>
    /\ DOMAIN retorno[1] = tickers_para_benchmark
    /\ retorno[1]["ITUB4"] = 0

----------------------------------------------------------------------------
(* C15 *)

\* The request of thread t has read the benchmark in check_stock and takes
\* the branch of lines 157-160, which appends ERRO_VOLATILIDADE to erros.
RamoBenchmarkIndisponivel(t) ==
    lido[t] # None /\ ~BenchmarkDisponivel(lido[t][1])

\* C15: under every interleaving of the requests, the value check_stock reads
\* from global_volatilidade_mercado is never None, so no request takes the
\* branch that reports the benchmark as not available; a benchmark that
\* could not be built is read as the empty Series, for which the volatility
\* criterion is false on every history without an entry in erros.
C15_BenchmarkNeverNoneWhenRead ==
    \A t \in Threads :
        /\ pc[t] \in {"handler", "respond"} =>
              BenchmarkDisponivel(global_volatilidade_mercado)
        /\ ~RamoBenchmarkIndisponivel(t)
        /\ lido[t] = Some(Some(<<>>)) =>
              \A h \in VolatilHistories : ~verificar_menos_volatil(h, lido[t][1])

\* Two requests raced through setup, both downloads failed, and one of them
\* has read the empty Series in check_stock while the other is about to.
C15_Witness ==
    /\ builds = 2
    /\ lido[1] = Some(Some(<<>>))
    /\ pc[2] = "handler"
    /\ global_volatilidade_mercado = Some(<<>>)

====
